---- MODULE Spec2Model ----
(***************************************************************************)
(* Model of the live-feed reconciler of the earnings dashboard: the        *)
(* MessagesList view (components/Messages/ui and components/Earnings/ui),  *)
(* its per-subject deduplication effect, its baseline / new-arrival        *)
(* effects and the 60 s highlight decay timers.                            *)
(*                                                                         *)
(* A Message is a record                                                   *)
(*   [message_id, ticker, quarter, year, link, timestamp]                  *)
(* ticker, quarter, year and link are strings as in the Message interface; *)
(* link = "" stands for an absent or empty link (both are falsy under !!). *)
(* timestamp is the day number of the ISO date string the server sends;    *)
(* GetTime converts it to epoch milliseconds as new Date(..).getTime().    *)
(* message_id is a natural number standing for the server-assigned id.     *)
(***************************************************************************)
EXTENDS Integers, Sequences, FiniteSets, TLC

VARIABLES
  view,                  \* which MessagesList component is mounted
  messages,              \* prop: messages
  loading,               \* prop: loading
  deduplicatedMessages,  \* useState: deduplicatedMessages
  newMessageIds,         \* useState: newMessageIds (HighlightSet)
  allSeenMessageIds,     \* useRef: allSeenMessageIdsRef.current (SeenSet)
  prevMessages,          \* useRef: prevMessagesRef.current
  initialLoadCompleted,  \* useRef: initialLoadCompletedRef.current
  timers,                \* pending setTimeout callbacks: [id, due]
  now,                   \* wall clock, in milliseconds
  baselineIds,           \* history: the ids recorded when the baseline was installed
  reappearedIds,         \* history: the ids seen after the baseline that came back
                         \* with the last update and whose timer did not fire since
  baselineFromEmptyLoad, \* history: the last step installed the baseline, and
                         \* before it the load had completed with no message
  \* The Messages page (components/Messages.tsx)
  feedMessages,          \* useState: messages
  feedLoading,           \* useState: loading
  refreshing,            \* useState: refreshing
  mountFetched,          \* the mount effect has called fetchMessages()
  fetches,               \* snapshot requests in flight: [seq, body]
  nextFetch,             \* issue number of the next snapshot request
  lastInstalledSeq,      \* history: greatest issue number of an installed snapshot
  serverIds,             \* the ids of the messages the server holds
  enabled,               \* useWebSocket: enabled
  liveTimeouts,          \* pending setTimeout callbacks of the live button:
                         \* [enabled, hadMessages, due], the values of the
                         \* render whose handler scheduled the callback
  \* The cache of services/cache, shared by the whole process
  cache,                 \* key -> [value, expiresAt]
  \* The callers of services/api and the servers behind it
  requests,              \* HTTP requests in flight: [op, args, body, overtaken];
                         \* body is the data the server answers a read with,
                         \* overtaken (history) tells that a write that
                         \* invalidates the key of the read completed since
  server,                \* resource -> version of the data the server holds
  lastReturn,            \* what the last completed api call handed to its caller,
                         \* and (history) how many cache entries it removed
  lastSet,               \* history: key -> [value, at, ttl, over] of the last
                         \* cache.set that no cache.remove followed
  \* One row of the MessagesList view: its preview
  previewInput,          \* the message of the row and the createMessagePreview prop
  preview,               \* what createMessagePreview(message) returned
  rendered               \* what StaticPreview rendered from it

\* The state of the Messages page
\* The push channel switch of the Messages page
liveVars == <<enabled, liveTimeouts>>

feedVars == <<feedMessages, feedLoading, refreshing, mountFetched, fetches,
              nextFetch, lastInstalledSeq, serverIds, liveVars>>

\* The state outside the MessagesList view
\* The state of the api callers and servers
apiVars == <<requests, server, lastReturn, lastSet>>

\* The preview of one row
previewVars == <<previewInput, preview, rendered>>

outsideView == <<feedVars, cache, apiVars, previewVars>>

vars == <<view, messages, loading, deduplicatedMessages, newMessageIds,
          allSeenMessageIds, prevMessages, initialLoadCompleted, timers, now,
          baselineIds, reappearedIds, baselineFromEmptyLoad, outsideView>>

----------------------------------------------------------------------------
(* Bounds *)

MaxFetches == 3  \* snapshot requests issued by the Messages page
MaxInFlight == 2 \* requests in flight at the same time
MaxRequests == 1 \* api requests in flight at the same time
MaxVersion == 2  \* versions of a resource on its server
MaxApiTicks == 1 \* plain clock ticks while the api is called

MaxLiveTicks == 2 \* the live button is clicked at MaxLiveTicks clock readings

\* Length of a message that is not JSON
MaxTextLen == 3

MaxMsgs == 4     \* longest message collection fed to the deduplication
MaxDay == 2      \* timestamps range over days 1..MaxDay
MaxIds == 3      \* message ids of the view-lifetime specification
MaxTicks == 2    \* the parent is observed for MaxTicks clock readings

(* Program constants *)

HighlightMs == 60000   \* setTimeout delay of the highlight removal
MsPerDay == 86400000   \* milliseconds between two consecutive day stamps
TickMs == HighlightMs   \* the modelled clock is read once per highlight period

\* CACHE_EXPIRY
\* Delay of the refresh that follows enabling the push channel
LiveRefreshDelayMs == 100

CACHE_EXPIRY_SHORT == 2 * 60 * 1000
CACHE_EXPIRY_MEDIUM == 5 * 60 * 1000
CACHE_EXPIRY_LONG == 15 * 60 * 1000

Views == {"Messages", "Earnings"}

----------------------------------------------------------------------------
(* The deduplication effect *)

\* new Date(timestamp).getTime()
GetTime(timestamp) == timestamp * MsPerDay

\* !!message.link
HasLink(message) == message.link # ""

\* const key = message.ticker                                  (Messages/ui)
\* const key = message.ticker + message.quarter + message.year (Earnings/ui)
SubjectKey(v, message) ==
  IF v = "Messages" THEN message.ticker
  ELSE message.ticker \o message.quarter \o message.year

\* `${key}-${hasLink ? 'link' : 'data'}`
CompositeKey(key, hasLink) == key \o "-" \o (IF hasLink THEN "link" ELSE "data")

\* The subject of a message, as the specification defines it: the ticker,
\* in Earnings/ui combined with the reporting period.
Subject(v, message) ==
  IF v = "Messages" THEN <<message.ticker>>
  ELSE <<message.ticker, message.quarter, message.year>>

\* One step of Array.prototype.sort with the comparator
\* (a, b) => getTime(b) - getTime(a): the sort is stable, so an element goes
\* behind every element that is not older than it.
RECURSIVE InsertNewestFirst(_, _)
InsertNewestFirst(sorted, m) ==
  IF sorted = <<>> THEN <<m>>
  ELSE IF GetTime(Head(sorted).timestamp) >= GetTime(m.timestamp)
       THEN <<Head(sorted)>> \o InsertNewestFirst(Tail(sorted), m)
       ELSE <<m>> \o sorted

RECURSIVE SortFrom(_, _)
SortFrom(sorted, rest) ==
  IF rest = <<>> THEN sorted
  ELSE SortFrom(InsertNewestFirst(sorted, Head(rest)), Tail(rest))

\* [...messages].sort((a, b) => getTime(b.timestamp) - getTime(a.timestamp))
SortNewestFirst(msgs) == SortFrom(<<>>, msgs)

\* A JavaScript Map, as the sequence of its entries in insertion order.
MapHas(map, key) == \E i \in DOMAIN map : map[i].key = key

MapGet(map, key) == map[CHOOSE i \in DOMAIN map : map[i].key = key].value

\* Map.prototype.set: a new key is appended, an existing key keeps its place
\* and gets the new value.
MapSet(map, key, value) ==
  IF MapHas(map, key)
  THEN [i \in DOMAIN map |->
          IF map[i].key = key THEN [key |-> key, value |-> value] ELSE map[i]]
  ELSE Append(map, [key |-> key, value |-> value])

\* Array.from(map.values())
MapValues(map) == [i \in DOMAIN map |-> map[i].value]

\* Mutation: the link status of the retained message is not compared, every
\* later message of the subject is stored under its composite key.
ProcessMessageNoStatusCheck(v, map, message) ==
  LET key == SubjectKey(v, message) IN
  IF ~MapHas(map, key) THEN MapSet(map, key, message)
  ELSE MapSet(map, CompositeKey(key, HasLink(message)), message)

\* The body of sortedMessages.forEach(message => ...)
ProcessMessage(v, map, message) ==
  LET key == SubjectKey(v, message) IN
  IF ~MapHas(map, key) THEN MapSet(map, key, message)
  ELSE LET existingMessage == MapGet(map, key)
           hasLink == HasLink(message)
           existingHasLink == HasLink(existingMessage)
       IN IF hasLink # existingHasLink
          THEN MapSet(map, CompositeKey(key, hasLink), message)
          ELSE map

RECURSIVE WalkMessages(_, _, _)
WalkMessages(v, map, sortedMessages) ==
  IF sortedMessages = <<>> THEN map
  ELSE WalkMessages(v, ProcessMessage(v, map, Head(sortedMessages)),
                    Tail(sortedMessages))

\* tickerMessageMap after the forEach over the sorted messages
TickerMessageMap(v, msgs) == WalkMessages(v, <<>>, SortNewestFirst(msgs))

\* Mutation: the values of the map are not sorted again.
DedupNoResort(v, msgs) ==
  IF Len(msgs) = 0 THEN <<>> ELSE MapValues(TickerMessageMap(v, msgs))

\* The value the dedup effect passes to setDeduplicatedMessages
Dedup(v, msgs) ==
  IF Len(msgs) = 0 THEN <<>>
  ELSE SortNewestFirst(MapValues(TickerMessageMap(v, msgs)))

----------------------------------------------------------------------------
(* The baseline and new-arrival effects *)

\* messages.map(msg => msg.message_id), as a set
MessageIds(msgs) == {msgs[i].message_id : i \in DOMAIN msgs}

\* The mutable state the two effects work on:
\*   seen      allSeenMessageIdsRef.current
\*   prev      prevMessagesRef.current
\*   completed initialLoadCompletedRef.current
\*   highlight newMessageIds
\*   timers    the scheduled setTimeout callbacks
\*   baseline  history of the ids of the baseline
Refs ==
  [seen |-> allSeenMessageIds, prev |-> prevMessages,
   completed |-> initialLoadCompleted, highlight |-> newMessageIds,
   timers |-> timers, baseline |-> baselineIds]

\* Mutation: the baseline is installed when the load completes, with or
\* without messages.
BaselineEffectOnEmptyLoad(r, msgs, ld) ==
  IF ~ld /\ ~r.completed
  THEN [r EXCEPT !.prev = msgs, !.seen = MessageIds(msgs),
                 !.completed = TRUE, !.baseline = MessageIds(msgs)]
  ELSE r

\* Mutation: the baseline is installed on every load, not only on the first.
BaselineEffectEveryLoad(r, msgs, ld) ==
  IF ~ld /\ Len(msgs) > 0
  THEN [r EXCEPT !.prev = msgs, !.seen = MessageIds(msgs),
                 !.completed = TRUE,
                 !.baseline = IF r.completed THEN r.baseline ELSE MessageIds(msgs)]
  ELSE r

\* Mutation: the baseline ids are not recorded in the seen set.
BaselineEffectNotRecorded(r, msgs, ld) ==
  IF ~ld /\ Len(msgs) > 0 /\ ~r.completed
  THEN [r EXCEPT !.prev = msgs, !.completed = TRUE,
                 !.baseline = MessageIds(msgs)]
  ELSE r

\* useEffect(() => { if (!loading && messages.length > 0 &&
\*                       !initialLoadCompletedRef.current) {...} }, [loading, messages])
BaselineEffect(r, msgs, ld) ==
  IF ~ld /\ Len(msgs) > 0 /\ ~r.completed
  THEN [r EXCEPT !.prev = msgs, !.seen = MessageIds(msgs),
                 !.completed = TRUE, !.baseline = MessageIds(msgs)]
  ELSE r

\* Mutation: the incoming ids are not added to the seen set.
NewArrivalEffectNotRecorded(r, msgs, t) ==
  IF ~r.completed \/ Len(msgs) = 0 THEN r
  ELSE LET genuinelyNewMessageIds == {id \in MessageIds(msgs) : id \notin r.seen}
       IN [r EXCEPT
             !.highlight = r.highlight \cup genuinelyNewMessageIds,
             !.timers = r.timers \cup
                 {[id |-> id, due |-> t + HighlightMs] : id \in genuinelyNewMessageIds},
             !.prev = msgs]

\* Mutation: new messages are found by comparing with the previous
\* collection instead of the record of all seen ids.
NewArrivalEffectAgainstPrev(r, msgs, t) ==
  IF ~r.completed \/ Len(msgs) = 0 THEN r
  ELSE LET genuinelyNewMessageIds ==
             {id \in MessageIds(msgs) : id \notin MessageIds(r.prev)}
       IN [r EXCEPT
             !.seen = r.seen \cup MessageIds(msgs),
             !.highlight = r.highlight \cup genuinelyNewMessageIds,
             !.timers = r.timers \cup
                 {[id |-> id, due |-> t + HighlightMs] : id \in genuinelyNewMessageIds},
             !.prev = msgs]

\* Mutation: one timer is scheduled for the whole batch, it removes only the
\* smallest new id.
NewArrivalEffectOneTimer(r, msgs, t) ==
  IF ~r.completed \/ Len(msgs) = 0 THEN r
  ELSE LET genuinelyNewMessageIds == {id \in MessageIds(msgs) : id \notin r.seen}
       IN [r EXCEPT
             !.seen = r.seen \cup MessageIds(msgs),
             !.highlight = r.highlight \cup genuinelyNewMessageIds,
             !.timers = r.timers \cup
                 {[id |-> id, due |-> t + HighlightMs] :
                    id \in {n \in genuinelyNewMessageIds :
                              \A o \in genuinelyNewMessageIds : n <= o}},
             !.prev = msgs]

\* Mutation: a seen id that is not highlighted any more is highlighted again
\* when it comes back into the collection.
NewArrivalEffectRehighlight(r, msgs, t) ==
  IF ~r.completed \/ Len(msgs) = 0 THEN r
  ELSE LET genuinelyNewMessageIds ==
             {id \in MessageIds(msgs) :
                id \notin r.seen \/ (id \notin MessageIds(r.prev) /\ id \notin r.baseline)}
       IN [r EXCEPT
             !.seen = r.seen \cup MessageIds(msgs),
             !.highlight = r.highlight \cup genuinelyNewMessageIds,
             !.timers = r.timers \cup
                 {[id |-> id, due |-> t + HighlightMs] : id \in genuinelyNewMessageIds},
             !.prev = msgs]

\* useEffect(() => { if (!initialLoadCompletedRef.current || !messages ||
\*                       messages.length === 0) return; ... }, [messages])
\* The functional update of newMessageIds is applied with the effect; every
\* genuinely new id gets its own timer, due HighlightMs after the time t.
NewArrivalEffect(r, msgs, t) ==
  IF ~r.completed \/ Len(msgs) = 0 THEN r
  ELSE LET genuinelyNewMessageIds == {id \in MessageIds(msgs) : id \notin r.seen}
       IN [r EXCEPT
             !.seen = r.seen \cup MessageIds(msgs),
             !.highlight = r.highlight \cup genuinelyNewMessageIds,
             !.timers = r.timers \cup
                 {[id |-> id, due |-> t + HighlightMs] : id \in genuinelyNewMessageIds},
             !.prev = msgs]

\* One commit of the component with the props (msgs, ld).  The effects run in
\* the order of their declaration; an effect runs when one of its
\* dependencies changed: messagesChanged tells whether the messages prop is
\* a new array.
Commit(msgs, ld, messagesChanged) ==
  LET r1 == IF messagesChanged \/ ld # loading
            THEN BaselineEffect(Refs, msgs, ld) ELSE Refs
      r2 == IF messagesChanged THEN NewArrivalEffect(r1, msgs, now) ELSE r1
  IN /\ messages' = msgs
     /\ loading' = ld
     /\ deduplicatedMessages' =
          IF messagesChanged THEN Dedup(view, msgs) ELSE deduplicatedMessages
     /\ allSeenMessageIds' = r2.seen
     /\ prevMessages' = r2.prev
     /\ initialLoadCompleted' = r2.completed
     /\ newMessageIds' = r2.highlight
     /\ timers' = r2.timers
     /\ baselineIds' = r2.baseline
     /\ reappearedIds' =
          IF messagesChanged
          THEN {id \in (MessageIds(msgs) \cap allSeenMessageIds) \ baselineIds :
                  id \notin MessageIds(messages)}
          ELSE reappearedIds
     /\ baselineFromEmptyLoad' =
          (r2.completed /\ ~initialLoadCompleted /\ ~loading /\ messages = <<>>)
     /\ UNCHANGED <<view, now, outsideView>>

----------------------------------------------------------------------------
(* The state outside the view when the application starts *)

\* A payload handed over by the cache or by the network: null, or data.
Null == [null |-> TRUE]

Data(x) == [null |-> FALSE, data |-> x]

\* if (cachedMessages), if (data), if (!response)
Truthy(payload) == ~payload.null

\* What a failed read hands to its caller: [], or a thrown error.
EmptyArray == [null |-> FALSE, empty |-> TRUE]

Thrown == [thrown |-> TRUE]

\* The cache with no entry.
EmptyCache == [key \in {} |-> Null]

\* The resources behind the api.
Resources == {"messages", "earnings", "metrics", "configs"}

\* Messages page: the useState initial values, nothing requested yet; the
\* server holds no message yet; the cache is empty.
OutsideInit ==
  /\ feedMessages = <<>>
  /\ feedLoading = TRUE
  /\ refreshing = FALSE
  /\ mountFetched = FALSE
  /\ fetches = {}
  /\ nextFetch = 1
  /\ lastInstalledSeq = 0
  /\ serverIds = {}
  /\ enabled = TRUE
  /\ liveTimeouts = {}
  /\ cache = EmptyCache
  /\ requests = {}
  /\ server = [res \in Resources |-> 1]
  /\ lastReturn = [payload |-> Null, hit |-> FALSE, removed |-> 0]
  /\ lastSet = EmptyCache

----------------------------------------------------------------------------
(* The view over its lifetime *)

\* The messages the parent can hand to the view in the lifetime
\* specification: one message per id.
MessageOf(id) ==
  [message_id |-> id, ticker |-> "X", quarter |-> "2", year |-> "2024",
   link |-> IF id % 2 = 0 THEN "http://x" ELSE "",
   timestamp |-> 1 + (id % MaxDay)]

\* The arrays the parent passes: for every set of ids the messages with these
\* ids, in the order of the ids.
PropArrays ==
  {[i \in 1..Cardinality(S) |->
      MessageOf(CHOOSE id \in S : Cardinality({other \in S : other < id}) = i - 1)] :
     S \in SUBSET (1..MaxIds)}

\* The state after the first render with the default props (messages = []):
\* the useState and useRef initial values; no effect has anything to do.
\* The state when the view mounts.
MountInit ==
  /\ view \in Views
  /\ messages = <<>>
  /\ loading \in BOOLEAN
  /\ deduplicatedMessages = <<>>
  /\ newMessageIds = {}
  /\ allSeenMessageIds = {}
  /\ prevMessages = <<>>
  /\ initialLoadCompleted = FALSE
  /\ timers = {}
  /\ now = 0
  /\ baselineIds = {}
  /\ reappearedIds = {}
  /\ baselineFromEmptyLoad = FALSE
  /\ OutsideInit

\* No row is being previewed.
Init ==
  /\ MountInit
  /\ previewInput = Null
  /\ preview = Null
  /\ rendered = Null

\* The parent is observed until the clock reads Horizon.
Horizon == MaxTicks * TickMs

\* The parent passes a new messages array (and possibly a new loading flag).
UpdateMessages ==
  /\ now < Horizon
  /\ \E msgs \in PropArrays, ld \in BOOLEAN : Commit(msgs, ld, TRUE)

\* The parent flips the loading flag and passes the same messages array.
UpdateLoading ==
  /\ now < Horizon
  /\ Commit(messages, ~loading, FALSE)

\* Mutation: the callback empties the highlight set.
TimerFireClearsAll ==
  \E t \in timers :
    /\ t.due <= now
    /\ newMessageIds' = {}
    /\ timers' = timers \ {t}
    /\ reappearedIds' = reappearedIds \ {t.id}
    /\ baselineFromEmptyLoad' = FALSE
    /\ UNCHANGED <<view, messages, loading, deduplicatedMessages,
                   allSeenMessageIds, prevMessages, initialLoadCompleted, now,
                   baselineIds, outsideView>>

\* A decay timer fires: setNewMessageIds(prev => prev without id)
TimerFire ==
  \E t \in timers :
    /\ t.due <= now
    /\ newMessageIds' = newMessageIds \ {t.id}
    /\ timers' = timers \ {t}
    /\ reappearedIds' = reappearedIds \ {t.id}
    /\ baselineFromEmptyLoad' = FALSE
    /\ UNCHANGED <<view, messages, loading, deduplicatedMessages,
                   allSeenMessageIds, prevMessages, initialLoadCompleted, now,
                   baselineIds, outsideView>>

\* The time of the next clock reading: TickMs later, or the due time of the
\* earliest pending timer when that comes first.
NextTime ==
  LET ahead == {t.due : t \in timers} \cup {now + TickMs}
  IN CHOOSE x \in ahead : \A y \in ahead : x <= y

\* Time passes; a timer that is due fires before the clock moves on.  The
\* clock stops at Horizon unless a timer is still pending.
Tick ==
  /\ now < Horizon \/ timers # {}
  /\ \A t \in timers : t.due > now
  /\ now' = NextTime
  /\ baselineFromEmptyLoad' = FALSE
  /\ UNCHANGED <<view, messages, loading, deduplicatedMessages, newMessageIds,
                 allSeenMessageIds, prevMessages, initialLoadCompleted, timers,
                 baselineIds, reappearedIds, outsideView>>

Next == UpdateMessages \/ UpdateLoading \/ TimerFire \/ Tick

Spec == Init /\ [][Next]_vars

----------------------------------------------------------------------------
(* The deduplication on bounded inputs *)

MessagesSubjects == {<<"X", "2", "2024">>, <<"X-link", "2", "2024">>}

EarningsSubjects == {<<"X", "12", "2024">>, <<"X1", "2", "2024">>}

SubjectsOf(v) == IF v = "Messages" THEN MessagesSubjects ELSE EarningsSubjects

Links == {"", "http://x"}

\* The fields a message of the collection can have: subject, link, day.
MessageChoices(v) == SubjectsOf(v) \X Links \X (1..MaxDay)

\* The message collection chosen by f; the message at position i has the
\* id i.
InputOf(f) ==
  [i \in DOMAIN f |->
     [message_id |-> i, ticker |-> f[i][1][1], quarter |-> f[i][1][2],
      year |-> f[i][1][3], link |-> f[i][2], timestamp |-> f[i][3]]]

InitDedup == Init /\ ~loading

\* The view is rendered with a message collection of up to MaxMsgs messages.
RenderInput ==
  /\ messages = <<>>
  /\ \E n \in 1..MaxMsgs : \E f \in [1..n -> MessageChoices(view)] :
       Commit(InputOf(f), loading, TRUE)

\* The view is rendered with its own deduplicated output.
Refeed ==
  /\ messages # <<>>
  /\ Commit(deduplicatedMessages, loading, TRUE)

NextDedup == RenderInput \/ Refeed

SpecDedup == InitDedup /\ [][NextDedup]_vars

----------------------------------------------------------------------------
(* Properties of the deduplication, checked under SpecDedup *)

SameSubject(a, b) == Subject(view, a) = Subject(view, b)

SameKind(a, b) == SameSubject(a, b) /\ HasLink(a) = HasLink(b)

Retained(m) == \E k \in DOMAIN deduplicatedMessages : deduplicatedMessages[k] = m

\* C1: the deduplicated output holds, for every subject, at most one message
\* with a link and at most one message without a link.
C1_DedupCardinality ==
  \A i, j \in DOMAIN deduplicatedMessages :
    SameKind(deduplicatedMessages[i], deduplicatedMessages[j]) => i = j

\* A collection with two link messages and two data messages of one subject
\* has been deduplicated to one of each.
C1_Witness ==
  /\ Len(messages) = 4
  /\ \A i \in DOMAIN messages : SameSubject(messages[i], messages[1])
  /\ Cardinality({i \in DOMAIN messages : HasLink(messages[i])}) = 2
  /\ Len(deduplicatedMessages) = 2

\* C2: the retained message of each kind (link, no link) of a subject is the
\* newest message of that kind of the subject in the input.
C2_NewestOfEachKind ==
  \A k \in DOMAIN deduplicatedMessages : \A i \in DOMAIN messages :
    SameKind(deduplicatedMessages[k], messages[i]) =>
      GetTime(messages[i].timestamp) <= GetTime(deduplicatedMessages[k].timestamp)

\* C3: deduplicating the deduplicated output gives the same sequence again.
C3_DedupIdempotent ==
  Dedup(view, deduplicatedMessages) = deduplicatedMessages

\* C4: of two messages of one subject with the same link status, the older
\* one is discarded.
C4_OlderDuplicateDiscarded ==
  \A i, j \in DOMAIN messages :
    (/\ SameKind(messages[i], messages[j])
     /\ GetTime(messages[i].timestamp) > GetTime(messages[j].timestamp))
    => ~Retained(messages[j])

\* C5: when exactly two messages share a subject, one with a link and one
\* without, both are retained.
C5_LinkDataPairRetained ==
  \A i, j \in DOMAIN messages :
    (/\ i # j
     /\ SameSubject(messages[i], messages[j])
     /\ HasLink(messages[i]) # HasLink(messages[j])
     /\ \A k \in DOMAIN messages :
          SameSubject(messages[k], messages[i]) => k \in {i, j})
    => Retained(messages[i]) /\ Retained(messages[j])

\* C6: the deduplicated output is ordered newest first, and an empty input
\* gives an empty output.
C6_OutputNewestFirst ==
  /\ \A k \in DOMAIN deduplicatedMessages :
       k + 1 \in DOMAIN deduplicatedMessages =>
         GetTime(deduplicatedMessages[k].timestamp)
           >= GetTime(deduplicatedMessages[k + 1].timestamp)
  /\ (messages = <<>> => deduplicatedMessages = <<>>)

\* An input whose oldest message comes first has been deduplicated to three
\* messages, the newest first.
C6_Witness ==
  /\ Len(messages) >= 3
  /\ GetTime(messages[1].timestamp) < GetTime(messages[Len(messages)].timestamp)
  /\ Len(deduplicatedMessages) = 3
  /\ GetTime(deduplicatedMessages[1].timestamp)
       > GetTime(deduplicatedMessages[3].timestamp)

\* C30: for every subject of the input, a newest message of the subject is
\* in the deduplicated output, and every message of the output is a message
\* of the input; this holds too when the key of one subject is the composite
\* key of another.
C30_NewestOfSubjectSurvives ==
  /\ \A i \in DOMAIN messages :
       \E k \in DOMAIN deduplicatedMessages :
         /\ SameSubject(deduplicatedMessages[k], messages[i])
         /\ GetTime(deduplicatedMessages[k].timestamp)
              >= GetTime(messages[i].timestamp)
  /\ \A k \in DOMAIN deduplicatedMessages :
       \E i \in DOMAIN messages : messages[i] = deduplicatedMessages[k]

----------------------------------------------------------------------------
(* Properties of the seen set and the highlight set, checked under Spec *)

\* C7: the seen set never loses an id, whichever step is taken (a new
\* messages array, a change of the loading flag, a decay timer, the step
\* that installs the baseline).
C7_SeenSetMonotonic ==
  [][allSeenMessageIds \subseteq allSeenMessageIds']_vars

\* The seen set has grown beyond the baseline, a seen id has left the
\* collection and a decay timer has fired.
C7_Witness ==
  /\ initialLoadCompleted
  /\ allSeenMessageIds \ baselineIds # {}
  /\ allSeenMessageIds \ MessageIds(messages) # {}
  /\ now >= HighlightMs
  /\ newMessageIds = {}
  /\ timers = {}

\* C8: every highlighted id is recorded as seen.
C8_HighlightWithinSeen == newMessageIds \subseteq allSeenMessageIds

\* An id is highlighted while another seen id is not.
C8_Witness ==
  /\ newMessageIds # {}
  /\ allSeenMessageIds \ newMessageIds # {}

\* C9: the baseline is installed as soon as the collection is non-empty with
\* loading false; its ids are recorded as seen and none of them is ever
\* highlighted.
C9_BaselineNeverHighlighted ==
  /\ (~loading /\ messages # <<>>) => initialLoadCompleted
  /\ initialLoadCompleted =>
       /\ baselineIds # {}
       /\ baselineIds \subseteq allSeenMessageIds
       /\ baselineIds \cap newMessageIds = {}

\* After the baseline a later id is highlighted while the baseline ids are
\* in the collection.
C9_Witness ==
  /\ initialLoadCompleted
  /\ now > 0
  /\ newMessageIds # {}
  /\ baselineIds \subseteq MessageIds(messages)

\* C10: once the baseline is installed, a step to a different, non-empty
\* collection adds exactly the incoming ids that were not seen to the
\* highlight set, and all incoming ids to the seen set.
C10_NewArrivalDetection ==
  [][(initialLoadCompleted /\ messages' # messages /\ messages' # <<>>) =>
       /\ newMessageIds' =
            newMessageIds \cup (MessageIds(messages') \ allSeenMessageIds)
       /\ allSeenMessageIds' = allSeenMessageIds \cup MessageIds(messages')]_vars

\* Baseline {1}, then the collection {1, 2}: 2 is highlighted, its timer has
\* just been scheduled.
C10_Witness ==
  /\ baselineIds = {1}
  /\ MessageIds(messages) = {1, 2}
  /\ allSeenMessageIds = {1, 2}
  /\ newMessageIds = {2}
  /\ timers = {[id |-> 2, due |-> now + HighlightMs]}

----------------------------------------------------------------------------
(* The highlight decay, checked under SpecDecay *)

\* The arrays that hold the messages 1..k of the feed, for every k.
FeedArrays == {msgs \in PropArrays : MessageIds(msgs) = 1..Len(msgs)}

\* The parent passes the feed after arrivals (a longer array) or after a
\* filter or a shorter snapshot (a shorter array).
UpdateFeed ==
  /\ now < Horizon
  /\ \E msgs \in FeedArrays, ld \in BOOLEAN : Commit(msgs, ld, TRUE)

NextDecay == UpdateFeed \/ UpdateLoading \/ TimerFire \/ Tick

\* The event loop runs a timer callback that is due, and time passes.
SpecDecay == Init /\ [][NextDecay]_vars /\ WF_vars(TimerFire) /\ WF_vars(Tick)

\* C11: an id that enters the highlight set gets its own timer, due
\* HighlightMs later; while it is highlighted that timer is pending and not
\* overdue, so the id is not highlighted after its due time; and every
\* highlighted id is eventually not highlighted.
C11_HighlightDecay ==
  /\ [][\A id \in newMessageIds' \ newMessageIds :
          [id |-> id, due |-> now + HighlightMs] \in timers']_vars
  /\ [][\A tm \in timers : tm \in timers' \/ tm.id \notin newMessageIds']_vars
  /\ [](\A id \in newMessageIds :
          \E tm \in timers : tm.id = id /\ now <= tm.due)
  /\ \A id \in 1..MaxIds : (id \in newMessageIds) ~> (id \notin newMessageIds)

\* An id was highlighted, its timer has fired after HighlightMs and a later
\* id is still highlighted.
C11_Witness ==
  /\ now >= HighlightMs
  /\ newMessageIds # {}
  /\ \E id \in allSeenMessageIds \ baselineIds :
       /\ id \notin newMessageIds
       /\ \A tm \in timers : tm.id # id

\* C12: an id that is recorded as seen is never added to the highlight set
\* and never gets a new timer, whether it is still highlighted or not.
C12_HighlightedAtMostOnce ==
  [][\A id \in allSeenMessageIds :
       /\ (id \notin newMessageIds => id \notin newMessageIds')
       /\ {tm \in timers' : tm.id = id} \subseteq timers]_vars

\* Two ids observed after the baseline have left the collection and come
\* back with one update: one while its highlight was pending, one after it
\* decayed.
C12_Witness ==
  /\ \E id \in reappearedIds \ baselineIds :
       id \in newMessageIds /\ id \in MessageIds(messages)
  /\ \E id \in reappearedIds \ baselineIds :
       id \notin newMessageIds /\ id \in MessageIds(messages)

\* C24: the timer scheduled for an id removes that id from the highlight set
\* and nothing else: every other highlighted id stays, and the seen set, the
\* collection and the other timers are as before; an update that arrives
\* while timers are pending keeps every highlight and adds its new ids.
C24_DecayTimersIndependent ==
  [][/\ \A t \in timers :
          timers' = timers \ {t} =>
            /\ newMessageIds' = newMessageIds \ {t.id}
            /\ allSeenMessageIds' = allSeenMessageIds
            /\ messages' = messages
            /\ deduplicatedMessages' = deduplicatedMessages
     /\ (timers # {} /\ timers \subseteq timers') =>
          /\ newMessageIds \subseteq newMessageIds'
          /\ {t.id : t \in timers' \ timers} \subseteq newMessageIds']_vars

\* The timer of one id has fired while an id highlighted by a later update
\* is still highlighted with its timer pending.
C24_Witness ==
  /\ \E x \in allSeenMessageIds \ (baselineIds \cup newMessageIds) :
       /\ x \in MessageIds(messages)
       /\ \A t \in timers : t.id # x
  /\ \E t \in timers : t.id \in newMessageIds /\ t.due = now + HighlightMs

----------------------------------------------------------------------------
(* The expiring cache of services/cache: get, set, remove *)

\* get(key) at time t: the stored value if present and t is strictly before
\* expiresAt, otherwise absent (null).
CacheGet(c, key, t) ==
  IF key \in DOMAIN c /\ t < c[key].expiresAt THEN c[key].value ELSE Null

\* The cache after get(key) at time t: an expired entry found is purged.
CachePurge(c, key, t) ==
  IF key \in DOMAIN c /\ ~(t < c[key].expiresAt)
  THEN [k \in DOMAIN c \ {key} |-> c[k]]
  ELSE c

\* set(key, value, ttl) at time t: expiresAt = t + ttl, any prior entry is
\* overwritten.
CacheSet(c, key, value, ttl, t) ==
  [k \in DOMAIN c \cup {key} |->
     IF k = key THEN [value |-> value, expiresAt |-> t + ttl] ELSE c[k]]

\* remove(key): deletes the entry if present.
CacheRemove(c, key) == [k \in DOMAIN c \ {key} |-> c[k]]

\* CACHE_KEYS.MESSAGES
KeyMessages == "messages"

----------------------------------------------------------------------------
(* The Messages page: snapshot fetches, push deliveries, the ticker filter *)

\* The messages of the server: two tickers, so that the ticker filter has
\* something to remove.
ServerMessage(id) ==
  [MessageOf(id) EXCEPT !.ticker = IF id % 2 = 1 THEN "X" ELSE "Y"]

\* The body of GET /messages: the messages the server holds, in id order.
ServerSnapshot(ids) ==
  [i \in 1..Cardinality(ids) |->
     ServerMessage(CHOOSE id \in ids : Cardinality({other \in ids : other < id}) = i - 1)]

\* String.prototype.toLowerCase on the tickers and search terms of the model
ToLowerCase(str) ==
  CASE str = "X" -> "x" [] str = "Y" -> "y" [] OTHER -> str

\* String.prototype.includes on strings of at most one character
Includes(str, search) == search = "" \/ search = str

\* What the user types into the ticker search box.
SearchTerms == {"", "x", "Y"}

\* messages.filter(pred)
RECURSIVE FilterByTicker(_, _)
FilterByTicker(msgs, search) ==
  IF msgs = <<>> THEN <<>>
  ELSE LET rest == FilterByTicker(Tail(msgs), search)
       IN IF search = "" \/ Includes(ToLowerCase(Head(msgs).ticker), ToLowerCase(search))
          THEN <<Head(msgs)>> \o rest
          ELSE rest

\* handleNewMessage without the check for an existing id
HandleNewMessageNoExistsCheck(prev, newMessage) ==
  SortNewestFirst(Append(prev, newMessage))

\* setMessages(prev => exists ? prev : [...prev, newMessage].sort(..))
HandleNewMessage(prev, newMessage) ==
  IF \E i \in DOMAIN prev :
       prev[i].message_id = newMessage.message_id
  THEN prev
  ELSE SortNewestFirst(Append(prev, newMessage))

\* getMessages: what the promise resolves to once the request has completed.
\* try { ...; return messages } catch (error) { ...; return [] }
GetMessagesResult(ok, body) == IF ok THEN body ELSE <<>>

\* fetchMessages up to the await: the closures that call it (the mount effect
\* and the memoized handleRefresh) see messages = [], so it is
\* setLoading(true); getMessages reads the cache unless bypassCache, and
\* sends the request on a miss; the server answers it with the messages it
\* holds then, and the answer arrives later.  On a hit the cached array is
\* installed.
StartFetch(bypassCache) ==
  LET cachedMessages == IF bypassCache THEN Null
                        ELSE CacheGet(cache, KeyMessages, now)
  IN /\ nextFetch <= MaxFetches
     /\ Cardinality(fetches) < MaxInFlight
     /\ nextFetch' = nextFetch + 1
     /\ cache' = IF bypassCache THEN cache ELSE CachePurge(cache, KeyMessages, now)
     /\ IF Truthy(cachedMessages)
        THEN /\ feedMessages' = SortNewestFirst(cachedMessages.data)
             /\ feedLoading' = FALSE
             /\ refreshing' = FALSE
             /\ lastInstalledSeq' = nextFetch
             /\ UNCHANGED fetches
        ELSE /\ feedLoading' = TRUE
             /\ fetches' = fetches \cup
                  {[seq |-> nextFetch, body |-> ServerSnapshot(serverIds)]}
             /\ UNCHANGED <<feedMessages, refreshing, lastInstalledSeq>>
     /\ UNCHANGED serverIds

\* useEffect(() => { ...; fetchMessages(); ... }, [])
MountFetch ==
  /\ ~mountFetched
  /\ mountFetched' = TRUE
  /\ StartFetch(FALSE)
  /\ UNCHANGED <<view, messages, loading, deduplicatedMessages, newMessageIds,
                 allSeenMessageIds, prevMessages, initialLoadCompleted, timers,
                 now, baselineIds, reappearedIds,
                 baselineFromEmptyLoad, liveVars, apiVars, previewVars>>

\* The refresh button (disabled while refreshing): fetchMessages(true)
HandleRefresh ==
  /\ mountFetched
  /\ ~refreshing
  /\ StartFetch(TRUE)
  /\ UNCHANGED <<mountFetched, view, messages, loading, deduplicatedMessages,
                 newMessageIds, allSeenMessageIds, prevMessages,
                 initialLoadCompleted, timers, now, baselineIds, reappearedIds,
                 baselineFromEmptyLoad, liveVars, apiVars, previewVars>>

\* The rest of fetchMessages, after await getMessages(..): sort, setMessages,
\* and in the finally block setLoading(false), setRefreshing(false).
FetchMessagesResume(f, fetchedMessages) ==
  /\ feedMessages' = SortNewestFirst(fetchedMessages)
  /\ feedLoading' = FALSE
  /\ refreshing' = FALSE
  /\ fetches' = fetches \ {f}
  /\ UNCHANGED <<mountFetched, nextFetch, view, messages, loading,
                 deduplicatedMessages, newMessageIds, allSeenMessageIds,
                 prevMessages, initialLoadCompleted, timers, now, baselineIds,
                 reappearedIds,
                 baselineFromEmptyLoad, liveVars, apiVars, previewVars>>

\* The answer to a request arrives: getMessages caches the messages for
\* CACHE_EXPIRY.SHORT and returns them; the page sorts the array in place,
\* which is the array the cache holds.
FetchSucceed(f) ==
  LET fetchedMessages == GetMessagesResult(TRUE, f.body)
  IN /\ f \in fetches
     /\ cache' = CacheSet(cache, KeyMessages, Data(SortNewestFirst(f.body)),
                          CACHE_EXPIRY_SHORT, now)
     /\ FetchMessagesResume(f, fetchedMessages)
     /\ lastInstalledSeq' = IF f.seq > lastInstalledSeq THEN f.seq
                            ELSE lastInstalledSeq
     /\ UNCHANGED serverIds

\* A request fails (transport error, HTTP error status, empty body):
\* getMessages logs the error and returns [].
FetchFail(f) ==
  /\ f \in fetches
  /\ FetchMessagesResume(f, GetMessagesResult(FALSE, <<>>))
  /\ UNCHANGED <<cache, lastInstalledSeq, serverIds>>

\* The push channel delivers a message of the server to the mounted page:
\* handleNewMessage
PushDeliver(id) ==
  /\ mountFetched
  /\ id \in serverIds
  /\ feedMessages' = HandleNewMessage(feedMessages, ServerMessage(id))
  /\ UNCHANGED <<feedLoading, refreshing, mountFetched, fetches, nextFetch,
                 lastInstalledSeq, serverIds, cache, view, messages, loading,
                 deduplicatedMessages, newMessageIds, allSeenMessageIds,
                 prevMessages, initialLoadCompleted, timers, now, baselineIds,
                 reappearedIds,
                 baselineFromEmptyLoad, liveVars, apiVars, previewVars>>

\* applyFilters with the search term of the ticker box:
\* setMessages(prev => prev.filter(..))
ApplyFilters(searchMessageTicker) ==
  /\ mountFetched
  /\ feedMessages' = FilterByTicker(feedMessages, searchMessageTicker)
  /\ UNCHANGED <<feedLoading, refreshing, mountFetched, fetches, nextFetch,
                 lastInstalledSeq, serverIds, cache, view, messages, loading,
                 deduplicatedMessages, newMessageIds, allSeenMessageIds,
                 prevMessages, initialLoadCompleted, timers, now, baselineIds,
                 reappearedIds,
                 baselineFromEmptyLoad, liveVars, apiVars, previewVars>>

\* The server receives a new message.
ServerPublish(id) ==
  /\ id \notin serverIds
  /\ serverIds' = serverIds \cup {id}
  /\ UNCHANGED <<feedMessages, feedLoading, refreshing, mountFetched, fetches,
                 nextFetch, lastInstalledSeq, cache, view, messages, loading,
                 deduplicatedMessages, newMessageIds, allSeenMessageIds,
                 prevMessages, initialLoadCompleted, timers, now, baselineIds,
                 reappearedIds,
                 baselineFromEmptyLoad, liveVars, apiVars, previewVars>>

NextFeed ==
  \/ MountFetch
  \/ HandleRefresh
  \/ \E f \in fetches : FetchSucceed(f)
  \/ \E f \in fetches : FetchFail(f)
  \/ \E id \in 1..MaxIds : PushDeliver(id)
  \/ \E searchMessageTicker \in SearchTerms : ApplyFilters(searchMessageTicker)
  \/ \E id \in 1..MaxIds : ServerPublish(id)

\* The page does not render a MessagesList: the state of the view stays as
\* constructed.
InitFeed == Init /\ view = "Messages" /\ loading

SpecFeed == InitFeed /\ [][NextFeed]_vars

\* C13: a failing snapshot fetch leaves a non-empty message collection as it
\* was.
C13_FailureKeepsCollection ==
  [][\A f \in fetches :
       (FetchFail(f) /\ feedMessages # <<>>) => feedMessages' = feedMessages]_vars

\* C14: the completion of a snapshot fetch that was issued before an already
\* installed snapshot does not replace the message collection.
C14_StaleSnapshotDiscarded ==
  [][\A f \in fetches :
       (FetchSucceed(f) /\ f.seq < lastInstalledSeq)
         => feedMessages' = feedMessages]_vars

\* C15: the message collection never holds two entries with the same
\* message_id, and the push delivery of an id that is present leaves the
\* collection unchanged.
C15_NoDuplicateIds ==
  /\ [](\A i, j \in DOMAIN feedMessages :
          feedMessages[i].message_id = feedMessages[j].message_id => i = j)
  /\ [][\A id \in MessageIds(feedMessages) :
          PushDeliver(id) => feedMessages' = feedMessages]_vars

\* A snapshot was installed and cached, and the collection holds messages
\* of it next to a message that only the push channel delivered.
C15_Witness ==
  /\ KeyMessages \in DOMAIN cache
  /\ MessageIds(feedMessages) \cap MessageIds(cache[KeyMessages].value.data) # {}
  /\ MessageIds(feedMessages) \ MessageIds(cache[KeyMessages].value.data) # {}

\* The messages of msgs in the order p, a permutation of the positions.
Reordered(msgs, p) == [i \in DOMAIN msgs |-> msgs[p[i]]]

\* C16: every permutation of the message collection is deduplicated to the
\* same retained set as the collection itself.
C16_ArrivalOrderIndependent ==
  \A p \in Permutations(DOMAIN messages) :
    MessageIds(Dedup(view, Reordered(messages, p)))
      = MessageIds(deduplicatedMessages)

----------------------------------------------------------------------------
(* services/api: the cached reads and the invalidating writes *)

\* The list state of the MessagesList view, which the api leaves alone.
listVars == <<view, messages, loading, deduplicatedMessages, newMessageIds,
              allSeenMessageIds, prevMessages, initialLoadCompleted, timers,
              baselineIds, reappearedIds, baselineFromEmptyLoad, previewVars>>

\* The ticker and date the parameterized calls are made with.
Tickers == {"AAPL"}

Dates == {"2024-05-01"}

CallArgs == [ticker : Tickers, date : Dates]

\* CACHE_KEYS
KeyEarningsItems == "earnings_items"

KeyHistoricalMetrics == "historical_metrics"

KeyHistoricalMetricsByTickerDate(ticker, date) ==
  "historical_metrics_" \o ticker \o "_" \o date

KeyCompanyConfigs == "company_configs"

KeyCompanyConfig(ticker) == "company_config_" \o ticker

ReadOps ==
  {"getMessages", "getEarningsItems", "getHistoricalMetrics",
   "getHistoricalMetricsByTickerAndDate", "getCompanyConfigs",
   "getCompanyConfigByTicker"}

WriteOps ==
  {"updateEarningsItem", "createEarningsItem", "createHistoricalMetrics",
   "updateHistoricalMetrics", "createOrUpdateCompanyConfig"}

\* The resource an operation reads or writes.
ResourceOf(op) ==
  CASE op = "getMessages" -> "messages"
    [] op \in {"getEarningsItems", "updateEarningsItem", "createEarningsItem"}
         -> "earnings"
    [] op \in {"getHistoricalMetrics", "getHistoricalMetricsByTickerAndDate",
               "createHistoricalMetrics", "updateHistoricalMetrics"}
         -> "metrics"
    [] OTHER -> "configs"

\* The cache key of a read.
ReadKey(op, args) ==
  CASE op = "getMessages" -> KeyMessages
    [] op = "getEarningsItems" -> KeyEarningsItems
    [] op = "getHistoricalMetrics" -> KeyHistoricalMetrics
    [] op = "getHistoricalMetricsByTickerAndDate"
         -> KeyHistoricalMetricsByTickerDate(args.ticker, args.date)
    [] op = "getCompanyConfigs" -> KeyCompanyConfigs
    [] OTHER -> KeyCompanyConfig(args.ticker)

\* Mutation: getCompanyConfigs caches for CACHE_EXPIRY.LONG.
ReadTtlConfigsLong(op) ==
  CASE op \in {"getMessages", "getEarningsItems"} -> CACHE_EXPIRY_SHORT
    [] op = "getHistoricalMetrics" -> CACHE_EXPIRY_MEDIUM
    [] OTHER -> CACHE_EXPIRY_LONG

\* The expiry a read passes to cache.set.
ReadTtl(op) ==
  CASE op \in {"getMessages", "getEarningsItems"} -> CACHE_EXPIRY_SHORT
    [] op \in {"getHistoricalMetrics", "getCompanyConfigs"} -> CACHE_EXPIRY_MEDIUM
    [] OTHER -> CACHE_EXPIRY_LONG

\* The reads that have a bypassCache parameter.
HasBypass(op) == op \in {"getMessages", "getEarningsItems"}

\* How a request ends: a body, a success status with an empty body, or a
\* failure (transport error or error status).
Outcomes == {"ok", "empty", "fail"}

\* The parsed response of a request that succeeded: fetchWithAuth returns
\* null for an empty body.
ResponseData(outcome, body) == IF outcome = "ok" THEN Data(body) ELSE Null

\* Mutation: the failure result is cached too.
ReadSetsOnFailure(op, outcome) ==
  CASE outcome = "fail" -> TRUE
    [] outcome = "ok" -> TRUE
    [] OTHER -> op \in {"getHistoricalMetrics", "getCompanyConfigs"}

\* Does the read reach its cache.set?  getMessages parses the body itself and
\* fails on an empty one; getEarningsItems throws on a null response; the
\* two list reads cache whatever fetchWithAuth returns; the two per-key reads
\* cache only if (data).
ReadSets(op, outcome) ==
  CASE outcome = "fail" -> FALSE
    [] outcome = "ok" -> TRUE
    [] OTHER -> op \in {"getHistoricalMetrics", "getCompanyConfigs"}

\* What the read hands to its caller.
ReadResult(op, outcome, body) ==
  CASE outcome = "ok" -> Data(body)
    [] outcome = "empty" ->
         IF op \in {"getMessages", "getEarningsItems"} THEN EmptyArray ELSE Null
    [] OTHER ->
         IF op \in {"getMessages", "getEarningsItems", "getHistoricalMetrics"}
         THEN EmptyArray
         ELSE IF op = "getHistoricalMetricsByTickerAndDate" THEN Null
         ELSE Thrown

\* Mutation: the read fills the cache only if the key has no entry.
CacheAfterReadIfAbsent(c, op, key, outcome, body, t) ==
  IF ReadSets(op, outcome) /\ key \notin DOMAIN c
  THEN CacheSet(c, key, ResponseData(outcome, body), ReadTtl(op), t)
  ELSE c

\* The cache after the read has completed at time t.
CacheAfterRead(c, op, key, outcome, body, t) ==
  IF ReadSets(op, outcome)
  THEN CacheSet(c, key, ResponseData(outcome, body), ReadTtl(op), t)
  ELSE c

\* Mutation: the write invalidates in a finally block.
WriteInvalidatesInFinally(op, outcome) == TRUE

\* Does the write reach its cache.remove calls?  The two earnings writes
\* throw on a null response before they invalidate.
WriteInvalidates(op, outcome) ==
  CASE outcome = "fail" -> FALSE
    [] outcome = "ok" -> TRUE
    [] OTHER -> op \notin {"updateEarningsItem", "createEarningsItem"}

\* Mutation: the per-key entries are not invalidated.
InvalidatedKeysListOnly(op, args) ==
  CASE ResourceOf(op) = "earnings" -> {KeyEarningsItems}
    [] ResourceOf(op) = "metrics" -> {KeyHistoricalMetrics}
    [] OTHER -> {KeyCompanyConfigs}

\* The keys a write removes from the cache.
InvalidatedKeys(op, args) ==
  CASE ResourceOf(op) = "earnings" -> {KeyEarningsItems}
    [] ResourceOf(op) = "metrics" ->
         {KeyHistoricalMetrics,
          KeyHistoricalMetricsByTickerDate(args.ticker, args.date)}
    [] OTHER -> {KeyCompanyConfigs, KeyCompanyConfig(args.ticker)}

\* cache.remove of every key of keys
RECURSIVE CacheRemoveAll(_, _)
CacheRemoveAll(c, keys) ==
  IF keys = {} THEN c
  ELSE LET key == CHOOSE k \in keys : TRUE
       IN CacheRemoveAll(CacheRemove(c, key), keys \ {key})

\* One run exercises the operations of one resource: the keys of two
\* resources are disjoint.
OnlyResource(res) ==
  /\ \A r \in requests : ResourceOf(r.op) = res
  /\ \A other \in Resources \ {res} : server[other] = 1
  /\ \A key \in DOMAIN cache \cup DOMAIN lastSet :
       \E op \in ReadOps, args \in CallArgs :
         ResourceOf(op) = res /\ ReadKey(op, args) = key

\* Mutation: the cache is consulted only when bypassCache is set.
ReadStartInvertedBypass(op, args, bypassCache) ==
  LET key == ReadKey(op, args)
      cached == IF ~bypassCache THEN Null ELSE CacheGet(cache, key, now)
  IN /\ OnlyResource(ResourceOf(op))
     /\ bypassCache => HasBypass(op)
     /\ cache' = IF ~bypassCache THEN cache ELSE CachePurge(cache, key, now)
     /\ IF Truthy(cached)
        THEN /\ lastReturn' = [payload |-> cached, hit |-> TRUE, removed |-> 0]
             /\ UNCHANGED requests
        ELSE /\ Cardinality(requests) < MaxRequests
             /\ requests' = requests \cup
                  {[op |-> op, args |-> args, body |-> server[ResourceOf(op)],
                    overtaken |-> FALSE]}
             /\ UNCHANGED lastReturn
     /\ UNCHANGED <<server, lastSet, feedVars, listVars, now>>

\* A read up to its await: the cache is consulted unless bypassCache; a
\* truthy cached value is returned, otherwise the request is sent, and the
\* server answers it with the data it holds.
ReadStart(op, args, bypassCache) ==
  LET key == ReadKey(op, args)
      cached == IF bypassCache THEN Null ELSE CacheGet(cache, key, now)
  IN /\ OnlyResource(ResourceOf(op))
     /\ bypassCache => HasBypass(op)
     /\ cache' = IF bypassCache THEN cache ELSE CachePurge(cache, key, now)
     /\ IF Truthy(cached)
        THEN /\ lastReturn' = [payload |-> cached, hit |-> TRUE, removed |-> 0]
             /\ UNCHANGED requests
        ELSE /\ Cardinality(requests) < MaxRequests
             /\ requests' = requests \cup
                  {[op |-> op, args |-> args, body |-> server[ResourceOf(op)],
                    overtaken |-> FALSE]}
             /\ UNCHANGED lastReturn
     /\ UNCHANGED <<server, lastSet, feedVars, listVars, now>>

\* The request of a read ends: cache.set on the paths that reach it, and the
\* value or the failure result goes to the caller.
ReadComplete(r, outcome) ==
  LET key == ReadKey(r.op, r.args) IN
  /\ r \in requests
  /\ r.op \in ReadOps
  /\ requests' = requests \ {r}
  /\ cache' = CacheAfterRead(cache, r.op, key, outcome, r.body, now)
  /\ lastSet' = IF ReadSets(r.op, outcome)
                THEN [k \in DOMAIN lastSet \cup {key} |->
                        IF k = key
                        THEN [value |-> ResponseData(outcome, r.body),
                              at |-> now, ttl |-> ReadTtl(r.op),
                              over |-> IF key \notin DOMAIN cache THEN "none"
                                       ELSE IF now < cache[key].expiresAt
                                            THEN "live" ELSE "expired"]
                        ELSE lastSet[k]]
                ELSE lastSet
  /\ lastReturn' = [payload |-> ReadResult(r.op, outcome, r.body),
                    hit |-> FALSE, removed |-> 0]
  /\ UNCHANGED <<server, feedVars, listVars, now>>

\* A write sends its POST request.
WriteStart(op, args) ==
  /\ OnlyResource(ResourceOf(op))
  /\ server[ResourceOf(op)] < MaxVersion
  /\ Cardinality(requests) < MaxRequests
  /\ requests' = requests \cup
       {[op |-> op, args |-> args, body |-> 0, overtaken |-> FALSE]}
  /\ UNCHANGED <<cache, server, lastReturn, lastSet, feedVars, listVars, now>>

\* A write sends its POST request while reads of its resource are in flight.
WriteStartDuringRead(op, args) ==
  /\ OnlyResource(ResourceOf(op))
  /\ server[ResourceOf(op)] < MaxVersion
  /\ requests # {}
  /\ \A r \in requests : r.op \in ReadOps
  /\ requests' = requests \cup
       {[op |-> op, args |-> args, body |-> 0, overtaken |-> FALSE]}
  /\ UNCHANGED <<cache, server, lastReturn, lastSet, feedVars, listVars, now>>

\* The request of a write ends: unless it failed the server holds the new
\* data; the write removes its keys on the paths that reach cache.remove,
\* and returns the response or throws.
WriteComplete(r, outcome) ==
  LET res == ResourceOf(r.op)
      keys == IF WriteInvalidates(r.op, outcome)
              THEN InvalidatedKeys(r.op, r.args) ELSE {}
  IN /\ r \in requests
     /\ r.op \in WriteOps
     /\ outcome # "fail" => server[res] < MaxVersion
     /\ requests' =
          {IF q.op \in ReadOps /\ ReadKey(q.op, q.args) \in keys
           THEN [q EXCEPT !.overtaken = TRUE] ELSE q : q \in requests \ {r}}
     /\ server' = IF outcome = "fail" THEN server
                  ELSE [server EXCEPT ![res] = @ + 1]
     /\ cache' = CacheRemoveAll(cache, keys)
     /\ lastSet' = [k \in DOMAIN lastSet \ keys |-> lastSet[k]]
     /\ lastReturn' = [payload |-> IF WriteInvalidates(r.op, outcome)
                                   THEN ResponseData(outcome, server'[res])
                                   ELSE Thrown,
                       hit |-> FALSE,
                       removed |-> Cardinality(keys \cap DOMAIN cache)]
     /\ UNCHANGED <<feedVars, listVars, now>>

\* The data of a resource changes on the server without a write of this
\* client.
ServerChange(res) ==
  /\ OnlyResource(res)
  /\ server[res] < MaxVersion
  /\ server' = [server EXCEPT ![res] = @ + 1]
  /\ UNCHANGED <<cache, requests, lastReturn, lastSet, feedVars, listVars, now>>

\* The clock is read at every tick up to ApiHorizon and at one later
\* instant, the expiry of a cache entry.
ApiHorizon == MaxApiTicks * TickMs

\* Time passes: one tick, or up to the expiry of a cache entry.
ApiTick ==
  /\ now <= ApiHorizon
  /\ \E t \in {now + TickMs} \cup {cache[k].expiresAt : k \in DOMAIN cache} :
       /\ t > now
       /\ t = now + TickMs => t <= ApiHorizon
       /\ now' = t
  /\ UNCHANGED <<cache, apiVars, feedVars, listVars>>

NextApi ==
  \/ \E op \in ReadOps, args \in CallArgs, bypassCache \in BOOLEAN :
       ReadStart(op, args, bypassCache)
  \/ \E r \in requests, outcome \in Outcomes : ReadComplete(r, outcome)
  \/ \E op \in WriteOps, args \in CallArgs : WriteStart(op, args)
  \/ \E r \in requests, outcome \in Outcomes : WriteComplete(r, outcome)
  \/ \E res \in Resources : ServerChange(res)
  \/ ApiTick

\* No MessagesList and no Messages page is mounted.
InitApi == Init /\ view = "Messages" /\ loading

SpecApi == InitApi /\ [][NextApi]_vars

\* The api with writes that are issued while reads are in flight.
NextRace ==
  \/ NextApi
  \/ \E op \in WriteOps, args \in CallArgs : WriteStartDuringRead(op, args)

SpecRace == InitApi /\ [][NextRace]_vars

\* C17: an entry set at time t with expiry ttl is returned by get at every
\* time strictly before t + ttl and is absent from then on; a read that
\* consults the cache returns the live entry without a request and sends a
\* request once the entry has expired.
C17_CacheTtl ==
  /\ [](\A key \in DOMAIN lastSet :
          CacheGet(cache, key, now) =
            IF now < lastSet[key].at + lastSet[key].ttl
            THEN lastSet[key].value ELSE Null)
  /\ [][\A op \in ReadOps, args \in CallArgs :
          (ReadStart(op, args, FALSE) /\ ReadKey(op, args) \in DOMAIN lastSet) =>
            LET key == ReadKey(op, args)
                entry == lastSet[key]
            IN IF now < entry.at + entry.ttl /\ Truthy(entry.value)
               THEN /\ lastReturn' = [payload |-> entry.value, hit |-> TRUE,
                                      removed |-> 0]
                    /\ requests' = requests
               ELSE /\ [op |-> op, args |-> args,
                        body |-> server[ResourceOf(op)],
                        overtaken |-> FALSE] \in requests'
                    /\ lastReturn' = lastReturn]_vars

\* A read was served from the cache after time had passed; the entry has
\* expired since and the next read of the key is on its way to the server.
C17_Witness ==
  /\ lastReturn.hit
  /\ \E r \in requests :
       LET key == ReadKey(r.op, r.args) IN
       /\ r.op \in ReadOps
       /\ DOMAIN lastSet = {key}
       /\ key \notin DOMAIN cache
       /\ now >= lastSet[key].at + lastSet[key].ttl

\* C18: a set on a key that holds an entry, expired or not, replaces the
\* value and resets the expiry to now + ttl; the cache entry is always the
\* one of the last set, and get returns its value.
C18_CacheOverwrite ==
  /\ [][\A r \in requests, outcome \in Outcomes :
          (/\ ReadComplete(r, outcome)
           /\ ReadSets(r.op, outcome)
           /\ ReadKey(r.op, r.args) \in DOMAIN cache) =>
            LET key == ReadKey(r.op, r.args) IN
            /\ cache'[key] = [value |-> ResponseData(outcome, r.body),
                              expiresAt |-> now + ReadTtl(r.op)]
            /\ CacheGet(cache', key, now) = ResponseData(outcome, r.body)]_vars
  /\ [](\A key \in DOMAIN cache \cap DOMAIN lastSet :
          cache[key] = [value |-> lastSet[key].value,
                        expiresAt |-> lastSet[key].at + lastSet[key].ttl])

\* A second set replaced an entry whose expiry had passed by a different
\* value, and get returns the new value.
C18_Witness ==
  \E key \in DOMAIN lastSet :
    /\ lastSet[key].over = "expired"
    /\ lastSet[key].value = Data(2)
    /\ CacheGet(cache, key, now) = Data(2)

\* The keys the claim names for a write: the list key, and for metrics and
\* configs also the key of the ticker (and date).
AffectedKeys(op, args) ==
  CASE op \in {"updateEarningsItem", "createEarningsItem"} -> {KeyEarningsItems}
    [] op \in {"createHistoricalMetrics", "updateHistoricalMetrics"} ->
         {KeyHistoricalMetrics,
          KeyHistoricalMetricsByTickerDate(args.ticker, args.date)}
    [] OTHER -> {KeyCompanyConfigs, KeyCompanyConfig(args.ticker)}

\* C19: when a write returns a value (does not throw), the cache holds no
\* entry for the affected keys and get returns absent for them.
C19_WriteThroughInvalidation ==
  [][\A r \in requests, outcome \in Outcomes :
       (WriteComplete(r, outcome) /\ lastReturn'.payload # Thrown) =>
         \A key \in AffectedKeys(r.op, r.args) :
           key \notin DOMAIN cache' /\ CacheGet(cache', key, now) = Null]_vars

\* A write has returned and has removed the list entry and the per-key
\* entry of its resource.
C19_Witness ==
  /\ lastReturn.payload # Thrown
  /\ lastReturn.removed = 2
  /\ DOMAIN cache = {}

\* The tier the claim names for a key.
ClaimedTier(key) ==
  IF key \in {KeyMessages, KeyEarningsItems} THEN CACHE_EXPIRY_SHORT
  ELSE IF key \in {KeyHistoricalMetrics, KeyCompanyConfigs} THEN CACHE_EXPIRY_MEDIUM
  ELSE CACHE_EXPIRY_LONG

\* C20: the tiers are 2, 5 and 15 minutes, strictly ordered, and every
\* cache.set of a read uses the tier of its key: short for the message and
\* earnings feeds, medium for the two lists, long for the per-key lookups.
C20_TtlTiers ==
  /\ CACHE_EXPIRY_SHORT = 2 * 60000
  /\ CACHE_EXPIRY_MEDIUM = 5 * 60000
  /\ CACHE_EXPIRY_LONG = 15 * 60000
  /\ CACHE_EXPIRY_SHORT < CACHE_EXPIRY_MEDIUM
  /\ CACHE_EXPIRY_MEDIUM < CACHE_EXPIRY_LONG
  /\ \A key \in DOMAIN lastSet : lastSet[key].ttl = ClaimedTier(key)

\* A list read and a per-key read of one resource have filled the cache.
C20_Witness ==
  /\ Cardinality(DOMAIN lastSet) = 2
  /\ DOMAIN lastSet \subseteq DOMAIN cache

\* C27: when the request of a write fails, the write throws to its caller
\* and the cache is as it was: no entry is removed or changed.
C27_FailedWriteKeepsCache ==
  [][\A r \in requests :
       (r.op \in WriteOps /\ WriteComplete(r, "fail")) =>
         /\ lastReturn'.payload = Thrown
         /\ lastReturn'.removed = 0
         /\ cache' = cache]_vars

\* A write of the earnings items has thrown while the list is cached and
\* the server holds the data it held before: the entry is still there.
C27_Witness ==
  /\ lastReturn.payload = Thrown
  /\ requests = {}
  /\ server["earnings"] = 1
  /\ KeyEarningsItems \in DOMAIN cache
  /\ cache[KeyEarningsItems].value = Data(1)

\* C28: when the request of a read fails, the cache is as it was (no
\* cache.set: a prior entry keeps its value and its expiry); no entry holds a
\* failure result, and what a read serves from the cache is data.
C28_FailedReadKeepsCache ==
  /\ [][\A r \in requests :
          (r.op \in ReadOps /\ ReadComplete(r, "fail")) =>
            /\ cache' = cache
            /\ lastSet' = lastSet]_vars
  /\ [](/\ \A key \in DOMAIN cache : cache[key].value \notin {EmptyArray, Thrown}
        /\ lastReturn.hit =>
             /\ lastReturn.payload \notin {EmptyArray, Thrown}
             /\ Truthy(lastReturn.payload))

\* A read of the earnings items that bypassed the cache has ended with the
\* failure result while the server holds newer data: the unexpired entry of
\* the older data is still in the cache.
C28_Witness ==
  /\ lastReturn.payload = EmptyArray
  /\ ~lastReturn.hit
  /\ requests = {}
  /\ server["earnings"] = 2
  /\ KeyEarningsItems \in DOMAIN cache
  /\ cache[KeyEarningsItems].value = Data(1)
  /\ now < cache[KeyEarningsItems].expiresAt

\* C29: a read that was in flight while a write that invalidates its key
\* completed does not leave the data it fetched in the cache: after it
\* completes, a cache read of the key does not return that data.
C29_NoStaleAcrossWrite ==
  [][\A r \in requests, outcome \in Outcomes :
       (r.op \in ReadOps /\ r.overtaken /\ ReadComplete(r, outcome)) =>
         CacheGet(cache', ReadKey(r.op, r.args), now) # Data(r.body)]_vars

----------------------------------------------------------------------------
(* components/Messages: the live button *)

\* The live button is clicked until the clock reads LiveHorizon.
LiveHorizon == MaxLiveTicks * LiveRefreshDelayMs

\* useWebSocket: enable() and disable() set the enabled flag the hook returns.
EnableWebSocket == enabled' = TRUE

DisableWebSocket == enabled' = FALSE

\* onClick of the live button. The handler and the callback it schedules are
\* closures of the render that is on screen: they hold that render's enabled
\* and messages.
ClickLive ==
  /\ mountFetched
  /\ now < LiveHorizon
  /\ IF enabled
     THEN /\ DisableWebSocket
          /\ UNCHANGED liveTimeouts
     ELSE /\ EnableWebSocket
          /\ liveTimeouts' = liveTimeouts \cup
               {[enabled |-> enabled, hadMessages |-> feedMessages # <<>>,
                 due |-> now + LiveRefreshDelayMs]}
  /\ UNCHANGED <<feedMessages, feedLoading, refreshing, mountFetched, fetches,
                 nextFetch, lastInstalledSeq, serverIds, cache, listVars, now,
                 apiVars>>

\* fetchMessages(true) of the render that scheduled t, up to its await: the
\* cache is bypassed and the snapshot is requested.
LiveFetch(t) ==
  /\ nextFetch <= MaxFetches
  /\ Cardinality(fetches) < MaxInFlight
  /\ nextFetch' = nextFetch + 1
  /\ IF t.hadMessages
     THEN refreshing' = TRUE /\ UNCHANGED feedLoading
     ELSE feedLoading' = TRUE /\ UNCHANGED refreshing
  /\ fetches' = fetches \cup
       {[seq |-> nextFetch, body |-> ServerSnapshot(serverIds)]}

\* The callback of the live button runs: if (enabled) fetchMessages(true)
LiveTimeoutFire ==
  \E t \in liveTimeouts :
    /\ t.due <= now
    /\ liveTimeouts' = liveTimeouts \ {t}
    /\ IF t.enabled
       THEN LiveFetch(t)
       ELSE UNCHANGED <<feedLoading, refreshing, fetches, nextFetch>>
    /\ UNCHANGED <<feedMessages, mountFetched, lastInstalledSeq, serverIds,
                   enabled, cache, listVars, now, apiVars>>

\* Time passes until the next callback of the live button is due.
LiveTick ==
  /\ liveTimeouts # {}
  /\ \A t \in liveTimeouts : t.due > now
  /\ \E t \in liveTimeouts :
       /\ \A u \in liveTimeouts : t.due <= u.due
       /\ now' = t.due
  /\ UNCHANGED <<feedVars, cache, listVars, apiVars>>

NextLive ==
  \/ MountFetch
  \/ ClickLive
  \/ LiveTimeoutFire
  \/ LiveTick
  \/ \E f \in fetches : FetchSucceed(f)
  \/ \E f \in fetches : FetchFail(f)
  \/ \E id \in 1..MaxIds : ServerPublish(id)

SpecLive == InitFeed /\ [][NextLive]_vars

\* C26: a click on the live button while the push channel is disabled calls
\* enable() and schedules a callback 100 ms later, and when that callback
\* runs a snapshot request that bypasses the cache is issued.
C26_EnableForcesRefresh ==
  [][/\ (~enabled /\ enabled') =>
          \E t \in liveTimeouts' : t.due = now + LiveRefreshDelayMs
     /\ \A t \in liveTimeouts :
          liveTimeouts' = liveTimeouts \ {t} =>
            /\ now = t.due
            /\ nextFetch' = nextFetch + 1
            /\ \E f \in fetches' \ fetches : f.seq = nextFetch]_vars

----------------------------------------------------------------------------
(* The preview of a row: createMessagePreview and StaticPreview *)

\* JavaScript values. A string is the sequence of its characters; a word
\* that is never taken apart is one element of the sequence.
Undefined == [t |-> "undefined"]

JsNull == [t |-> "null"]

JsTrue == [t |-> "boolean", b |-> TRUE]

Str(chars) == [t |-> "string", chars |-> chars]

Obj(members) == [t |-> "object", members |-> members]

NoMembers == [key \in {} |-> Undefined]

\* One member of an object literal; a member of value undefined is left out,
\* as JSON has no undefined.
Member(key, v) == IF v = Undefined THEN NoMembers ELSE key :> v

\* Boolean(v)
JsTruthy(v) ==
  CASE v.t = "undefined" -> FALSE
    [] v.t = "null" -> FALSE
    [] v.t = "boolean" -> v.b
    [] v.t = "string" -> v.chars # <<>>
    [] OTHER -> TRUE

\* v.key, for v neither null nor undefined
Get(v, key) ==
  IF v.t = "object" /\ key \in DOMAIN v.members THEN v.members[key]
  ELSE Undefined

\* a || b
Or(a, b) == IF JsTruthy(a) THEN a ELSE b

\* The sentinel of a metric without data
NA == Str(<<"N/A">>)

\* The order in which the members of an object are written.
KeyOrder ==
  <<"current_quarter_vs_expected", "next_quarter_vs_expected", "message",
    "sales", "eps", "actual", "guidance", "expected">>

\* The JSON text of a value, as the sequence of its tokens.
RECURSIVE Stringify(_)
RECURSIVE StringifyMembers(_, _, _)
Stringify(v) ==
  CASE v.t = "null" -> <<"null">>
    [] v.t = "boolean" -> IF v.b THEN <<"true">> ELSE <<"false">>
    [] v.t = "string" -> <<"\"">> \o v.chars \o <<"\"">>
    [] v.t = "object" -> <<"{">> \o StringifyMembers(v.members, 1, TRUE) \o <<"}">>

StringifyMembers(members, i, first) ==
  IF i > Len(KeyOrder) THEN <<>>
  ELSE IF KeyOrder[i] \notin DOMAIN members
       THEN StringifyMembers(members, i + 1, first)
       ELSE (IF first THEN <<>> ELSE <<",">>)
            \o <<"\"", KeyOrder[i], "\"", ":">>
            \o Stringify(members[KeyOrder[i]])
            \o StringifyMembers(members, i + 1, FALSE)

\* The figures a metric can carry: absent, the sentinel, or a figure.
ValueFigures == {Undefined, NA, Str(<<"$5B">>)}

ExpectedFigures == {Undefined, NA, Str(<<"$4B">>)}

\* { [valueKey]: value, expected: expected }
MetricObj(valueKey, value, expected) ==
  Obj(Member(valueKey, value) @@ Member("expected", expected))

\* { sales: sales, eps: eps }
QuarterObj(sales, eps) == Obj(Member("sales", sales) @@ Member("eps", eps))

CurrentQuarters ==
  {Undefined, JsNull} \cup
  {QuarterObj(sales, eps) :
     sales \in {Undefined} \cup
               {MetricObj("actual", a, e) : a \in ValueFigures, e \in ExpectedFigures},
     eps \in {Undefined,
              MetricObj("actual", Str(<<"$5B">>), Str(<<"$4B">>)),
              MetricObj("actual", Str(<<"$5B">>), Undefined)}}

NextQuarters ==
  {Undefined} \cup
  {QuarterObj(sales, eps) :
     sales \in {Undefined,
                MetricObj("guidance", Str(<<"$5B">>), Str(<<"$4B">>)),
                MetricObj("guidance", Undefined, Str(<<"$4B">>)),
                MetricObj("guidance", NA, NA)},
     eps \in {Undefined, MetricObj("guidance", Str(<<"$5B">>), Str(<<"$4B">>))}}

\* The values whose JSON text a message can carry.
JsonValues ==
  {JsNull, JsTrue} \cup
  {Obj(Member("current_quarter_vs_expected", cur)
       @@ Member("next_quarter_vs_expected", next)
       @@ Member("message", msg)) :
     cur \in CurrentQuarters, next \in NextQuarters,
     msg \in {Undefined, Str(<<>>), Str(<<"hi">>)}}

Serialised == [v \in JsonValues |-> Stringify(v)]

\* The characters of a message that is not JSON.
TextChars == {"a", "*", "#", " ", "\n"}

Texts == UNION {[1..n -> TextChars] : n \in 0..MaxTextLen}

\* message.discord_message
DiscordMessages ==
  {Undefined} \cup {Str(chars) : chars \in Texts}
              \cup {Str(Serialised[v]) : v \in JsonValues}

\* A row: the message and whether the parent passed createMessagePreview.
PreviewInputs ==
  [external : BOOLEAN,
   EPSComparison : {Undefined, Str(<<"beat">>)},
   discord_message : DiscordMessages]

\* JSON.parse(str): the value whose text str is, or a SyntaxError. No text
\* over TextChars is JSON.
Parsed ==
  [chars \in {Serialised[v] : v \in JsonValues} |->
     CHOOSE v \in JsonValues : Serialised[v] = chars]

JsonParse(str) ==
  IF str.chars \in DOMAIN Parsed THEN Parsed[str.chars] ELSE Thrown

IsSpace(c) == c \in {" ", "\n"}

\* .replace(/\s+/g, ' ')
RECURSIVE CollapseSpaces(_)
CollapseSpaces(chars) ==
  IF chars = <<>> THEN <<>>
  ELSE IF IsSpace(Head(chars))
       THEN IF Len(chars) > 1 /\ IsSpace(chars[2])
            THEN CollapseSpaces(Tail(chars))
            ELSE <<" ">> \o CollapseSpaces(Tail(chars))
       ELSE <<Head(chars)>> \o CollapseSpaces(Tail(chars))

\* .trim(), on a string whose runs of white space are collapsed
Trim(chars) ==
  LET from == IF chars # <<>> /\ IsSpace(Head(chars)) THEN 2 ELSE 1
      to == IF Len(chars) >= from /\ IsSpace(chars[Len(chars)])
            THEN Len(chars) - 1 ELSE Len(chars)
  IN  SubSeq(chars, from, to)

\* The chain of replace calls that removes the markdown. The patterns of
\* code blocks, inline code and links match nothing over TextChars or in the
\* JSON texts.
PlainText(str) ==
  LET noStars == SelectSeq(str.chars, LAMBDA c : c # "*")
      noHash == SelectSeq(noStars, LAMBDA c : c # "#")
      noNewlines == [i \in DOMAIN noHash |->
                       IF noHash[i] = "\n" THEN " " ELSE noHash[i]]
  IN  Str(Trim(CollapseSpaces(noNewlines)))

\* What the parent's createMessagePreview returns
ExternalPreview == Str(<<"external">>)

\* The metrics array built from the structured content
MetricsData(jsonData) ==
  LET cur == Get(jsonData, "current_quarter_vs_expected")
      next == Get(jsonData, "next_quarter_vs_expected")
      currentSales == Or(Get(cur, "sales"), Obj(NoMembers))
      currentEPS == Or(Get(cur, "eps"), Obj(NoMembers))
      nextSales == Or(Get(next, "sales"), Obj(NoMembers))
      nextEPS == Or(Get(next, "eps"), Obj(NoMembers))
  IN  [metrics |->
        <<[label |-> "Sales", value |-> Or(Get(currentSales, "actual"), NA),
           expected |-> Or(Get(currentSales, "expected"), NA)],
          [label |-> "EPS", value |-> Or(Get(currentEPS, "actual"), NA),
           expected |-> Or(Get(currentEPS, "expected"), NA)],
          [label |-> "Sales", value |-> Or(Get(nextSales, "guidance"), NA),
           expected |-> Or(Get(nextSales, "expected"), NA)],
          [label |-> "EPS", value |-> Or(Get(nextEPS, "guidance"), NA),
           expected |-> Or(Get(nextEPS, "expected"), NA)]>>]

\* The try block throws: JSON.parse a SyntaxError, a property read of null
\* a TypeError.
TryThrows(jsonData) == jsonData = Thrown \/ jsonData.t = "null"

\* createMessagePreview of Messages/ui/MessagesList without its try/catch
CreateMessagePreviewMessagesNoCatch(input) ==
  LET message == input
      jsonData == JsonParse(message.discord_message)
  IN  IF input.external
      THEN [content |-> ExternalPreview, multiline |-> FALSE, isMetrics |-> FALSE]
      ELSE IF JsTruthy(message.EPSComparison)
      THEN [content |-> message.EPSComparison, multiline |-> FALSE,
            isMetrics |-> FALSE]
      ELSE IF ~JsTruthy(message.discord_message)
      THEN [content |-> Str(<<>>), multiline |-> FALSE, isMetrics |-> FALSE]
      ELSE IF TryThrows(jsonData)
      THEN Thrown
      ELSE IF /\ JsTruthy(Get(jsonData, "current_quarter_vs_expected"))
              /\ JsTruthy(Get(jsonData, "next_quarter_vs_expected"))
      THEN [content |-> MetricsData(jsonData), multiline |-> TRUE,
            isMetrics |-> TRUE]
      ELSE IF JsTruthy(Get(jsonData, "message"))
      THEN [content |-> Get(jsonData, "message"), multiline |-> FALSE,
            isMetrics |-> FALSE]
      ELSE [content |-> PlainText(message.discord_message), multiline |-> FALSE,
            isMetrics |-> FALSE]

\* createMessagePreview of Messages/ui/MessagesList
CreateMessagePreviewMessages(input) ==
  LET message == input
      jsonData == JsonParse(message.discord_message)
  IN  IF input.external
      THEN [content |-> ExternalPreview, multiline |-> FALSE, isMetrics |-> FALSE]
      ELSE IF JsTruthy(message.EPSComparison)
      THEN [content |-> message.EPSComparison, multiline |-> FALSE,
            isMetrics |-> FALSE]
      ELSE IF ~JsTruthy(message.discord_message)
      THEN [content |-> Str(<<>>), multiline |-> FALSE, isMetrics |-> FALSE]
      ELSE IF /\ ~TryThrows(jsonData)
              /\ JsTruthy(Get(jsonData, "current_quarter_vs_expected"))
              /\ JsTruthy(Get(jsonData, "next_quarter_vs_expected"))
      THEN [content |-> MetricsData(jsonData), multiline |-> TRUE,
            isMetrics |-> TRUE]
      ELSE IF ~TryThrows(jsonData) /\ JsTruthy(Get(jsonData, "message"))
      THEN [content |-> Get(jsonData, "message"), multiline |-> FALSE,
            isMetrics |-> FALSE]
      ELSE [content |-> PlainText(message.discord_message), multiline |-> FALSE,
            isMetrics |-> FALSE]

\* createMessagePreview of Earnings/ui/MessagesList
CreateMessagePreviewEarnings(input) ==
  LET message == input
      jsonData == JsonParse(message.discord_message)
  IN  IF input.external
      THEN [content |-> ExternalPreview, multiline |-> FALSE]
      ELSE IF JsTruthy(message.EPSComparison)
      THEN [content |-> message.EPSComparison, multiline |-> FALSE]
      ELSE IF ~JsTruthy(message.discord_message)
      THEN [content |-> Str(<<>>), multiline |-> FALSE]
      ELSE IF ~TryThrows(jsonData) /\ JsTruthy(Get(jsonData, "message"))
      THEN [content |-> Get(jsonData, "message"), multiline |-> TRUE]
      ELSE [content |-> message.discord_message, multiline |-> TRUE]

CreateMessagePreview(v, input) ==
  IF v = "Messages" THEN CreateMessagePreviewMessages(input)
  ELSE CreateMessagePreviewEarnings(input)

\* metric.value !== 'N/A' && metric.expected !== 'N/A'
Populated(metric) == metric.value # NA /\ metric.expected # NA

\* One section of the structured preview: its heading and its rows.
Section(heading, metrics) ==
  [heading |-> heading, rows |-> SelectSeq(metrics, Populated)]

\* StaticPreview of Messages/ui/MessagesList: what it renders.
StaticPreview(content, multiline, isMetrics) ==
  IF isMetrics /\ "metrics" \in DOMAIN content
  THEN IF \E i \in DOMAIN content.metrics : Populated(content.metrics[i])
       THEN [kind |-> "metrics",
             sections |->
               <<Section("Current Quarter:", SubSeq(content.metrics, 1, 2))>>
               \o (IF \E i \in 3..4 : Populated(content.metrics[i])
                   THEN <<Section("Next Quarter:", SubSeq(content.metrics, 3, 4))>>
                   ELSE <<>>)]
       ELSE [kind |-> "placeholder", text |-> "No metrics available"]
  ELSE [kind |-> "text", content |-> content, multiline |-> multiline]

\* The row calls createMessagePreview(message).
CreatePreview ==
  /\ previewInput # Null
  /\ preview = Null
  /\ preview' = CreateMessagePreview(view, previewInput)
  /\ UNCHANGED <<previewInput, rendered, view, messages, loading,
                 deduplicatedMessages, newMessageIds, allSeenMessageIds,
                 prevMessages, initialLoadCompleted, timers, now, baselineIds,
                 reappearedIds, baselineFromEmptyLoad, feedVars, cache,
                 apiVars>>

\* The row of the Messages view renders StaticPreview with what
\* createMessagePreview returned, if the message has a discord_message.
RenderStaticPreview ==
  /\ view = "Messages"
  /\ JsTruthy(previewInput.discord_message)
  /\ preview # Null
  /\ preview # Thrown
  /\ rendered = Null
  /\ rendered' = StaticPreview(preview.content, preview.multiline, preview.isMetrics)
  /\ UNCHANGED <<previewInput, preview, view, messages, loading,
                 deduplicatedMessages, newMessageIds, allSeenMessageIds,
                 prevMessages, initialLoadCompleted, timers, now, baselineIds,
                 reappearedIds, baselineFromEmptyLoad, feedVars, cache,
                 apiVars>>

NextPreview == CreatePreview \/ RenderStaticPreview

\* A mounted view about to render the row of one message.
InitPreview ==
  /\ MountInit
  /\ ~loading
  /\ previewInput \in PreviewInputs
  /\ preview = Null
  /\ rendered = Null

SpecPreview == InitPreview /\ [][NextPreview]_vars

\* v is an object with a member key
HasKey(v, key) == v.t = "object" /\ key \in DOMAIN v.members

\* The content of the message is no JSON text, or it is the text of a value
\* without the two period objects and without a message key.
FallsBack(message) ==
  \/ message.discord_message = Undefined
  \/ LET jsonData == JsonParse(message.discord_message)
     IN  \/ jsonData = Thrown
         \/ /\ ~(/\ HasKey(jsonData, "current_quarter_vs_expected")
                 /\ Get(jsonData, "current_quarter_vs_expected").t = "object"
                 /\ HasKey(jsonData, "next_quarter_vs_expected")
                 /\ Get(jsonData, "next_quarter_vs_expected").t = "object")
            /\ ~HasKey(jsonData, "message")

\* C21: for every message whose content does not parse as JSON, or parses to
\* a value without the structured shape and without a message key,
\* createMessagePreview throws nothing and returns a preview that is a string
\* and not a metrics preview; the Messages view shows it as text, and what it
\* takes from the content carries no markdown marker.
C21_PreviewFallback ==
  (previewInput # Null /\ preview # Null /\ FallsBack(previewInput)) =>
    /\ preview # Thrown
    /\ "isMetrics" \in DOMAIN preview => ~preview.isMetrics
    /\ preview.content.t = "string"
    /\ (view = "Messages" /\ ~previewInput.external
        /\ ~JsTruthy(previewInput.EPSComparison)) =>
         \A i \in DOMAIN preview.content.chars :
            preview.content.chars[i] \notin {"*", "#", "\n"}
    /\ rendered # Null => rendered.kind = "text" /\ rendered.content = preview.content

\* A text with a markdown marker, and the JSON text of a value with only one
\* of the two period objects, were rendered as text.
C21_Witness ==
  /\ view = "Messages"
  /\ previewInput # Null
  /\ ~previewInput.external
  /\ previewInput.EPSComparison = Undefined
  /\ rendered # Null
  /\ rendered.kind = "text"
  /\ \/ previewInput.discord_message = Str(<<"*", "a", "\n">>)
     \/ /\ previewInput.discord_message # Undefined
        /\ LET jsonData == JsonParse(previewInput.discord_message)
           IN  /\ jsonData # Thrown
               /\ HasKey(jsonData, "current_quarter_vs_expected")
               /\ Get(jsonData, "current_quarter_vs_expected").t = "object"
               /\ ~HasKey(jsonData, "next_quarter_vs_expected")
               /\ ~HasKey(jsonData, "message")

\* The structured preview is on screen.
StructuredShown ==
  /\ view = "Messages"
  /\ preview # Null
  /\ preview # Thrown
  /\ preview.isMetrics
  /\ rendered # Null

\* The heading of the period of the i-th metric
HeadingOf(i) == IF i <= 2 THEN "Current Quarter:" ELSE "Next Quarter:"

\* The i-th metric is a row of its period's section.
RowShown(i) ==
  /\ rendered.kind = "metrics"
  /\ \E k \in DOMAIN rendered.sections :
       /\ rendered.sections[k].heading = HeadingOf(i)
       /\ \E j \in DOMAIN rendered.sections[k].rows :
            rendered.sections[k].rows[j] = preview.content.metrics[i]

\* C22: in the structured preview a metric row is left out exactly when its
\* value and its expected figure are both "N/A"; a row with one populated
\* side is shown.
C22_RowOmission ==
  StructuredShown =>
    \A i \in 1..4 :
       RowShown(i) <=> ~(/\ preview.content.metrics[i].value = NA
                         /\ preview.content.metrics[i].expected = NA)

\* C23: in the structured preview every section on screen has a row (a period
\* whose rows are all left out has no section and no heading), and when no
\* period has a row to show the placeholder is rendered instead.
C23_SectionOmission ==
  StructuredShown =>
    /\ rendered.kind = "metrics" =>
         /\ rendered.sections # <<>>
         /\ \A k \in DOMAIN rendered.sections : rendered.sections[k].rows # <<>>
    /\ (\A i \in 1..4 : ~Populated(preview.content.metrics[i])) =>
         rendered.kind = "placeholder"

====
